---- MODULE Spec2Model ----
(***************************************************************************)
(* Deployment reconciliation of the dev-assistant MCP server:              *)
(* DevAssistantServer.setupProjectRules (src/src/index.ts) over the rule   *)
(* history tables of ContextDatabase (src/src/database.ts) and one         *)
(* .cursor/rules directory.                                                *)
(*                                                                         *)
(* One invocation is a sequence of steps, one per group of awaits that     *)
(* can fail on its own: the write probe, inventory, baseline read and      *)
(* decision (Invoke), the backup copies (Backup), the deployment row       *)
(* (StoreDeployment), one artifact write with its file record (WriteRule), *)
(* the existence check (Verify) and the deployment fact (StoreFact).       *)
(* A second request for the same directory can arrive while an invocation  *)
(* is at one of these awaits (the CallToolRequestSchema handler takes no   *)
(* lock); it is followed through its reads up to its decision.  Between    *)
(* invocations the environment edits, creates or deletes files, time       *)
(* passes, a new release of the server may ship other template contents,   *)
(* and the tool may be invoked with the workspacePath of another project:  *)
(* its rules directory is another one, the ContextDatabase is the same.    *)
(***************************************************************************)
EXTENDS Integers, Sequences, FiniteSets, TLC

(* ------------------------------ bounds -------------------------------- *)
MaxCalls == 2          \* invocations of setup_project_rules in one run
MaxRelease == 2        \* releases of the template set
MaxEvents == 2         \* events outside the tool's control: a file created, changed
                       \* or deleted, a clock tick, an upgrade, a failing I/O step
MaxLimit == 2          \* greatest limit passed to getRuleDeploymentHistory
MaxPathLen == 4        \* pieces of a workspacePath argument
MaxChanges == 3        \* file system events delivered to the FileWatcher
maxRecentChanges == 2  \* FileWatcher.maxRecentChanges (100), scaled to the events

(* --------------------------- program constants ------------------------ *)
TicksPerSecond == 2    \* clock readings that share one CURRENT_TIMESTAMP second
TimestampToken == 0    \* the "{timestamp}" token inside a template content
TEMPLATE_VERSION == "2.0.0"
ProbeFile == ".write_test"
ProbeContent == <<7>>  \* the text "test" written by the write probe
NoActor == "Unknown"   \* deployed_by omitted by the caller (NULL column)
NoPath == -1           \* backupPath undefined (NULL column)

(* Filenames of CURSOR_RULES_TEMPLATES, in template order. *)
TemplateNames == <<"a.mdc", "b.mdc">>
TemplateNameSet == {TemplateNames[i] : i \in 1..Len(TemplateNames)}

(* Names a directory entry can have: the artifacts and the probe file. *)
FileNames == TemplateNameSet \cup {ProbeFile}

(* f.endsWith(".mdc") *)
EndsWithMdc(f) == f \in {"a.mdc", "b.mdc"}

(* File contents are sequences of symbols.  Symbols 1..MaxRelease are     *)
(* template text, 9 is text typed by a user, 7 the probe text, and        *)
(* TimestampToken stands for "{timestamp}".                               *)
UserContent == <<9>>
(* Faulty variant: the first artifact carries the "{timestamp}" token, as         *)
(* TEMPLATE_METADATA.lastUpdated does.                                    *)
CURSOR_RULES_TEMPLATES_Stamped(r) ==
    [f \in TemplateNameSet |->
        IF f = TemplateNames[1] THEN <<r, TimestampToken>> ELSE <<1>>]

(* CURSOR_RULES_TEMPLATES as shipped by release r.  No artifact content   *)
(* holds the "{timestamp}" token (it occurs only in TEMPLATE_METADATA).   *)
(* A later release changes the text of the first artifact.               *)
CURSOR_RULES_TEMPLATES(r) ==
    [f \in TemplateNameSet |-> IF f = TemplateNames[1] THEN <<r>> ELSE <<1>>]

(* What an editor leaves in a file: typed text, or the text of the file   *)
(* as some release ships it.                                              *)
EditContents(f) ==
    IF f \in TemplateNameSet
    THEN {CURSOR_RULES_TEMPLATES(r)[f] : r \in 1..MaxRelease} \cup {UserContent}
    ELSE {UserContent}

(* template.content.replace(/\{timestamp\}/g, timestamp) *)
RenderTimestamp(content, timestamp) ==
    [i \in DOMAIN content |->
        IF content[i] = TimestampToken THEN 100 + timestamp ELSE content[i]]

(* crypto sha256 digest: a function of the content alone, injective on    *)
(* the contents of the model.                                             *)
generateHash(content) == [sha256 |-> content]

(* Finite maps (Map, directory listings). *)
Put(m, k, v) == [x \in DOMAIN m \cup {k} |-> IF x = k THEN v ELSE m[x]]
Remove(m, k) == [x \in DOMAIN m \ {k} |-> m[x]]
EmptyMap == [x \in {} |-> 0]

VARIABLES
    disk,         \* rules directory: filename -> content, for the files present
    backups,      \* rulesDir/backups: backup path -> (filename -> content)
    deployments,  \* table rule_deployments, in id order
    ruleFiles,    \* table rule_files, in id order
    facts,        \* rows of table facts with category "project-setup"
    clock,        \* wall clock
    release,      \* release of the server that is running
    elsewhere,    \* the rules directory of another workspacePath, and the
                  \* ids of the rule_deployments rows written for it
    other,        \* locals of a request that overlaps the running invocation
    pc,           \* position of the running invocation, "idle" when none
    inv,          \* locals of the running invocation
    outcome,      \* result of the invocation, set when it ends
    pre,          \* state at the start of the running invocation
    fresh,        \* the previous invocation returned "deployed" and neither
                  \* the directory nor the release has changed since
    unverified,   \* the previous invocation ended in "Rule file missing after
                  \* write" and neither the directory nor the release has
                  \* changed since
    written,      \* filename -> content the tool last wrote to that file
    calls,        \* invocations started
    events        \* events outside the tool's control so far

vars == <<disk, backups, deployments, ruleFiles, facts, clock, release,
          elsewhere, other, pc, inv, outcome, pre, fresh, unverified, written,
          calls, events>>

db == <<deployments, ruleFiles, facts>>
world == <<clock, release, elsewhere, other>>
budget == <<calls, events>>

NoInvocation == [forceUpdate |-> FALSE]
NoOutcome == [kind |-> "none"]
NoSnapshot == [taken |-> FALSE]
NoDeployment == [id |-> 0]
NoOverlap == [phase |-> "none"]

Init ==
    /\ disk = EmptyMap
    /\ backups = EmptyMap
    /\ deployments = <<>>
    /\ ruleFiles = <<>>
    /\ facts = 0
    /\ clock = 0
    /\ release = 1
    /\ elsewhere = [disk |-> EmptyMap, ids |-> {}]
    /\ other = NoOverlap
    /\ pc = "idle"
    /\ inv = NoInvocation
    /\ outcome = NoOutcome
    /\ pre = NoSnapshot
    /\ fresh = FALSE
    /\ unverified = FALSE
    /\ written = EmptyMap
    /\ calls = 0
    /\ events = 0

(* ------------------------- ContextDatabase ---------------------------- *)

(* CURRENT_TIMESTAMP: the clock at one-second resolution. *)
CURRENT_TIMESTAMP == clock \div TicksPerSecond

Rows(table) == {table[i] : i \in 1..Len(table)}

(* INSERT INTO rule_deployments (template_version, total_files,           *)
(* deployed_by, backup_path); id is AUTOINCREMENT, deployed_at defaults.  *)
storeRuleDeployment(templateVersion, totalFiles, deployedBy, backupPath) ==
    Append(deployments,
           [id |-> Len(deployments) + 1,
            templateVersion |-> templateVersion,
            deployedAt |-> CURRENT_TIMESTAMP,
            deployedBy |-> deployedBy,
            totalFiles |-> totalFiles,
            backupPath |-> backupPath])

(* Faulty variant: INSERT OR REPLACE keyed by filename, the row of an earlier *)
(* deployment is overwritten.                                             *)
storeRuleFile_Upsert(deploymentId, filename, contentHash) ==
    IF \E i \in 1..Len(ruleFiles) : ruleFiles[i].filename = filename
    THEN [i \in 1..Len(ruleFiles) |->
            IF ruleFiles[i].filename = filename
            THEN [ruleFiles[i] EXCEPT !.deploymentId = deploymentId,
                                      !.contentHash = contentHash]
            ELSE ruleFiles[i]]
    ELSE Append(ruleFiles,
                [id |-> Len(ruleFiles) + 1,
                 deploymentId |-> deploymentId,
                 filename |-> filename,
                 contentHash |-> contentHash,
                 deployedAt |-> CURRENT_TIMESTAMP])

(* INSERT INTO rule_files (deployment_id, filename, content_hash).  The   *)
(* table declares no foreign key and no uniqueness constraint.            *)
storeRuleFile(deploymentId, filename, contentHash) ==
    Append(ruleFiles,
           [id |-> Len(ruleFiles) + 1,
            deploymentId |-> deploymentId,
            filename |-> filename,
            contentHash |-> contentHash,
            deployedAt |-> CURRENT_TIMESTAMP])

(* SELECT * FROM rule_deployments ORDER BY deployed_at DESC LIMIT 1: a    *)
(* row with the greatest deployed_at.  The query orders by nothing else,  *)
(* so among rows of one second any of them can be the one returned.       *)
getLatestRuleDeployment ==
    IF deployments = <<>> THEN {NoDeployment}
    ELSE {d \in Rows(deployments) :
             \A e \in Rows(deployments) : e.deployedAt <= d.deployedAt}

(* SELECT * FROM rule_deployments ORDER BY deployed_at DESC LIMIT ?: the  *)
(* sets of rows a read with this limit can return.  Rows of one second    *)
(* come in any order, so any of them can be the ones the limit cuts off.  *)
getRuleDeploymentHistory(limit) ==
    {S \in SUBSET Rows(deployments) :
        /\ Cardinality(S) = IF limit < Len(deployments) THEN limit
                            ELSE Len(deployments)
        /\ \A d \in S : \A e \in Rows(deployments) \ S :
               e.deployedAt <= d.deployedAt}

(* createTables: the columns of rule_deployments as CREATE TABLE IF NOT   *)
(* EXISTS makes them.                                                     *)
RuleDeploymentColumns ==
    {"id", "template_version", "deployed_at", "deployed_by", "total_files",
     "backup_path"}

(* PRAGMA table_info(rule_deployments): row.name === columnName *)
columnExists(columnName) == columnName \in RuleDeploymentColumns

(* Faulty variant: the table is rebuilt at every start. *)
runMigrations_Always(table) ==
    [i \in 1..Len(table) |-> [table[i] EXCEPT !.totalFiles = 1]]

(* runMigrations, run by initialize() at every start: a table of the old  *)
(* schema is copied into a new one with total_files set to 1.             *)
runMigrations(table) ==
    IF columnExists("template_hash") \/ ~columnExists("total_files")
    THEN [i \in 1..Len(table) |-> [table[i] EXCEPT !.totalFiles = 1]]
    ELSE table

(* SELECT * FROM rule_files WHERE deployment_id = ? *)
getRuleFiles(deploymentId) ==
    {rf \in Rows(ruleFiles) : rf.deploymentId = deploymentId}

(* getLatestRuleFiles, for the row the latest-deployment query returned. *)
getLatestRuleFiles(latestDeployment) ==
    IF latestDeployment = NoDeployment THEN {}
    ELSE getRuleFiles(latestDeployment.id)

(* --------------------- setupProjectRules: decision -------------------- *)

(* files.filter(f => f.endsWith(".mdc")) over the directory listing *)
existingFilesOf(dir) == {f \in DOMAIN dir : EndsWithMdc(f)}

(* The hash of every listed file that could be read. *)
existingHashesOf(dir, readFail) ==
    [f \in existingFilesOf(dir) \ readFail |-> generateHash(dir[f])]

(* CURSOR_RULES_TEMPLATES.map(... replace {timestamp} ...) *)
newRulesOf(timestamp) ==
    [f \in TemplateNameSet |->
        RenderTimestamp(CURSOR_RULES_TEMPLATES(release)[f], timestamp)]

newHashesOf(newRules) == [f \in DOMAIN newRules |-> generateHash(newRules[f])]

(* The files of the latest deployment whose hash on disk differs. *)
modifiedFiles(latestRuleFiles, existingHashes) ==
    {rf.filename : rf \in
        {r \in latestRuleFiles :
            /\ r.filename \in DOMAIN existingHashes
            /\ existingHashes[r.filename] # r.contentHash}}

hasChanges(latestRuleFiles, existingHashes) ==
    modifiedFiles(latestRuleFiles, existingHashes) # {}

(* Faulty variant: only the artifacts found on disk are compared. *)
hasNewTemplate_PresentOnly(newRules, existingHashes) ==
    \E f \in DOMAIN newRules \cap DOMAIN existingHashes :
        existingHashes[f] # newHashesOf(newRules)[f]

(* Faulty variant: only a missing artifact counts, the hashes are not compared. *)
hasNewTemplate_MissingOnly(newRules, existingHashes) ==
    \E f \in DOMAIN newRules : f \notin DOMAIN existingHashes

hasNewTemplate(newRules, existingHashes) ==
    \E f \in DOMAIN newRules :
        \/ f \notin DOMAIN existingHashes
        \/ existingHashes[f] # newHashesOf(newRules)[f]

(* Faulty variant: the template change is looked at before the modifications. *)
Decision_TemplateFirst(forceUpdate, existingFiles, existingHashes, latestRuleFiles, newRules) ==
    IF existingFiles # {} /\ ~forceUpdate
    THEN IF /\ ~hasChanges(latestRuleFiles, existingHashes)
            /\ ~hasNewTemplate(newRules, existingHashes)
         THEN "uptodate"
         ELSE IF hasNewTemplate(newRules, existingHashes)
              THEN "write"
              ELSE "drift"
    ELSE "write"

(* Faulty variant: files that match the templates end the check, whatever *)
(* the latest deployment recorded.                                        *)
Decision_TemplateMatchOnly(forceUpdate, existingFiles, existingHashes, latestRuleFiles, newRules) ==
    IF existingFiles # {} /\ ~forceUpdate
    THEN IF ~hasNewTemplate(newRules, existingHashes)
         THEN "uptodate"
         ELSE IF hasChanges(latestRuleFiles, existingHashes)
              THEN "drift"
              ELSE "write"
    ELSE "write"

(* Faulty variant: force_update is not consulted. *)
Decision_IgnoringForce(forceUpdate, existingFiles, existingHashes, latestRuleFiles, newRules) ==
    IF existingFiles # {}
    THEN IF /\ ~hasChanges(latestRuleFiles, existingHashes)
            /\ ~hasNewTemplate(newRules, existingHashes)
         THEN "uptodate"
         ELSE IF hasChanges(latestRuleFiles, existingHashes)
              THEN "drift"
              ELSE "write"
    ELSE "write"

(* The branch taken at "Check if update is needed". *)
Decision(forceUpdate, existingFiles, existingHashes, latestRuleFiles, newRules) ==
    IF existingFiles # {} /\ ~forceUpdate
    THEN IF /\ ~hasChanges(latestRuleFiles, existingHashes)
            /\ ~hasNewTemplate(newRules, existingHashes)
         THEN "uptodate"
         ELSE IF hasChanges(latestRuleFiles, existingHashes)
              THEN "drift"
              ELSE "write"
    ELSE "write"

Snapshot ==
    [taken |-> TRUE, disk |-> disk, backups |-> backups,
     deployments |-> deployments, ruleFiles |-> ruleFiles, facts |-> facts,
     written |-> written]

(* Faulty variant: the drift warning is thrown like an error. *)
Finish_DriftThrown(kind, cause, locals) ==
    /\ pc' = "done"
    /\ inv' = locals
    /\ outcome' = [kind |-> IF kind = "drift" THEN "error" ELSE kind,
                   cause |-> IF kind = "drift" THEN "drift" ELSE cause,
                   modified |-> {}]

(* The invocation ends: the result or the McpError is built (pc "done")  *)
(* and Return hands it to the caller.                                     *)
Finish(kind, cause, locals) ==
    /\ pc' = "done"
    /\ inv' = locals
    /\ outcome' = [kind |-> kind, cause |-> cause,
                   modified |-> IF kind = "drift"
                                THEN modifiedFiles(locals.latestRuleFiles,
                                                   locals.existingHashes)
                                ELSE {}]

(* An I/O operation of the step fails. *)
Inject(failing) ==
    IF failing THEN events < MaxEvents /\ events' = events + 1
    ELSE events' = events

Actors == {NoActor}
ProbeFaults == {"none", "mkdir", "probeWrite", "probeUnlink", "dbRead"}

(* Faulty variant: a backup directory is made whatever was asked and found. *)
backupWanted_Always(backupExisting, existingFiles) == TRUE

(* Line 350: backupExisting && existingFiles.length > 0 *)
backupWanted(backupExisting, existingFiles) ==
    backupExisting /\ existingFiles # {}

(* Faulty variant: only a failing mkdir is turned into an error. *)
ProbeThrows_MkdirOnly(fault) == fault = "mkdir"

(* Lines 236-246: a failure of mkdir, of the probe's writeFile or of its  *)
(* unlink is caught and thrown as "Cannot write to rules directory".      *)
ProbeThrows(fault) == fault \in {"mkdir", "probeWrite", "probeUnlink"}

(* The parts of lines 235-345 an invocation runs, in their order. *)
ReachedBy(fault) ==
    IF ProbeThrows(fault) THEN {"probe"}
    ELSE IF fault = "dbRead" THEN {"probe", "inventory", "baseline"}
         ELSE {"probe", "inventory", "baseline", "decision"}

(* Lines 220-345: path resolution, write probe, inventory, baseline read, *)
(* rendering and the decision.                                            *)
Invoke(forceUpdate, backupExisting, deployedBy, fault, readFail) ==
    /\ pc = "idle"
    /\ calls < MaxCalls
    /\ calls' = calls + 1
    /\ Inject(fault # "none" \/ readFail # {})
    /\ pre' = Snapshot
    /\ UNCHANGED <<backups, db, world, fresh, unverified, written>>
    /\ LET probed == IF fault \in {"mkdir", "probeWrite"} THEN disk
                     ELSE IF fault = "probeUnlink"
                          THEN Put(disk, ProbeFile, ProbeContent)
                          ELSE Remove(disk, ProbeFile)
           existingFiles == existingFilesOf(probed)
           existingHashes == existingHashesOf(probed, readFail)
           newRules == newRulesOf(clock)
       IN  /\ disk' = probed
           /\ \E latestDeployment \in getLatestRuleDeployment :
                LET latestRuleFiles == getLatestRuleFiles(latestDeployment)
                    locals == [forceUpdate |-> forceUpdate,
                               backupExisting |-> backupExisting,
                               deployedBy |-> deployedBy,
                               after |-> fresh,
                               afterLost |-> unverified,
                               fault |-> fault,
                               reached |-> ReachedBy(fault),
                               readFail |-> readFail,
                               now |-> clock,
                               existingFiles |-> existingFiles,
                               existingHashes |-> existingHashes,
                               latestDeployment |-> latestDeployment,
                               latestRuleFiles |-> latestRuleFiles,
                               newRules |-> newRules,
                               backupPath |-> NoPath,
                               deploymentId |-> 0,
                               deployedFiles |-> <<>>]
                    decision == Decision(forceUpdate, existingFiles, existingHashes,
                                         latestRuleFiles, newRules)
                IN  IF ProbeThrows(fault) \/ fault = "dbRead"
                    THEN Finish("error", fault, locals)
                    ELSE IF decision = "write"
                         THEN /\ pc' = IF backupWanted(backupExisting, existingFiles)
                                       THEN "backup" ELSE "store"
                              /\ inv' = locals
                              /\ UNCHANGED outcome
                         ELSE Finish(decision, "none", locals)

(* --------------------- setupProjectRules: write ----------------------- *)

(* `backup-${now.toISOString()}`: one backup directory per clock reading. *)
backupPathOf(now) == now

BackupFaults == {"none", "mkdir", "copy"}

(* Faulty variant: a failing copy is swallowed and the write goes on. *)
Backup_IgnoringCopyFailure(fault, copied) ==
    /\ pc = "backup"
    /\ copied \subseteq inv.existingFiles
    /\ Inject(fault # "none")
    /\ UNCHANGED <<disk, db, world, pre, fresh, unverified, written, calls>>
    /\ LET backupPath == backupPathOf(inv.now)
           dir == IF backupPath \in DOMAIN backups THEN backups[backupPath]
                  ELSE EmptyMap
           copies == [f \in DOMAIN dir \cup copied |->
                         IF f \in copied THEN disk[f] ELSE dir[f]]
       IN  CASE fault = "mkdir" ->
                  /\ copied = {}
                  /\ UNCHANGED backups
                  /\ Finish("error", "backupMkdir", inv)
             [] fault = "copy" ->
                  /\ copied # inv.existingFiles
                  /\ backups' = Put(backups, backupPath, copies)
                  /\ pc' = "store"
                  /\ inv' = [inv EXCEPT !.backupPath = backupPath]
                  /\ UNCHANGED outcome
             [] fault = "none" ->
                  /\ copied = inv.existingFiles
                  /\ backups' = Put(backups, backupPath, copies)
                  /\ pc' = "store"
                  /\ inv' = [inv EXCEPT !.backupPath = backupPath]
                  /\ UNCHANGED outcome

(* Lines 350-365: mkdir of the backup directory, then one copyFile per    *)
(* listed file.  A failing copy leaves the copies made before it.         *)
Backup(fault, copied) ==
    /\ pc = "backup"
    /\ copied \subseteq inv.existingFiles
    /\ Inject(fault # "none")
    /\ UNCHANGED <<disk, db, world, pre, fresh, unverified, written, calls>>
    /\ LET backupPath == backupPathOf(inv.now)
           dir == IF backupPath \in DOMAIN backups THEN backups[backupPath]
                  ELSE EmptyMap
           copies == [f \in DOMAIN dir \cup copied |->
                         IF f \in copied THEN disk[f] ELSE dir[f]]
       IN  CASE fault = "mkdir" ->
                  /\ copied = {}
                  /\ UNCHANGED backups
                  /\ Finish("error", "backupMkdir", inv)
             [] fault = "copy" ->
                  /\ copied # inv.existingFiles
                  /\ backups' = Put(backups, backupPath, copies)
                  /\ Finish("error", "backupCopy", inv)
             [] fault = "none" ->
                  /\ copied = inv.existingFiles
                  /\ backups' = Put(backups, backupPath, copies)
                  /\ pc' = "store"
                  /\ inv' = [inv EXCEPT !.backupPath = backupPath]
                  /\ UNCHANGED outcome

(* Faulty variant: the row counts the files found, not the artifacts written. *)
newRulesLength_Existing(newRules, existingFiles) == Cardinality(existingFiles)

(* newRules.length, the total_files of the new row *)
newRulesLength(newRules, existingFiles) == Cardinality(DOMAIN newRules)

(* Lines 367-373: the deployment row is inserted before any artifact is   *)
(* written.                                                               *)
StoreDeployment(ok) ==
    /\ pc = "store"
    /\ Inject(~ok)
    /\ UNCHANGED <<disk, backups, ruleFiles, facts, world, pre, fresh,
                   unverified, written, calls>>
    /\ IF ok
       THEN /\ deployments' = storeRuleDeployment(TEMPLATE_VERSION,
                                  newRulesLength(inv.newRules, inv.existingFiles),
                                  inv.deployedBy, inv.backupPath)
            /\ pc' = "write"
            /\ inv' = [inv EXCEPT !.deploymentId = Len(deployments) + 1]
            /\ UNCHANGED outcome
       ELSE /\ UNCHANGED deployments
            /\ Finish("error", "storeRuleDeployment", inv)

WriteFaults == {"none", "writeFile", "storeRuleFile"}

(* Lines 375-393, one iteration: writeFile of the next artifact, then its *)
(* rule_files row.                                                        *)
WriteRule(fault) ==
    /\ pc = "write"
    /\ Inject(fault # "none")
    /\ UNCHANGED <<backups, deployments, facts, world, pre, fresh, unverified,
                   calls>>
    /\ LET filename == TemplateNames[Len(inv.deployedFiles) + 1]
           content == inv.newRules[filename]
           done == [inv EXCEPT !.deployedFiles = Append(@, filename)]
       IN  CASE fault = "writeFile" ->
                  /\ UNCHANGED <<disk, written, ruleFiles>>
                  /\ Finish("error", "writeFile", inv)
             [] fault = "storeRuleFile" ->
                  /\ disk' = Put(disk, filename, content)
                  /\ written' = Put(written, filename, content)
                  /\ UNCHANGED ruleFiles
                  /\ Finish("error", "storeRuleFile", inv)
             [] fault = "none" ->
                  /\ disk' = Put(disk, filename, content)
                  /\ written' = Put(written, filename, content)
                  /\ ruleFiles' = storeRuleFile(inv.deploymentId, filename,
                                                newHashesOf(inv.newRules)[filename])
                  /\ pc' = IF Len(done.deployedFiles) = Len(TemplateNames)
                           THEN "verify" ELSE "write"
                  /\ inv' = done
                  /\ UNCHANGED outcome

(* Lines 395-403: fs.access of every deployed file.  A file is missing    *)
(* here only if something outside the tool removed it after the write.    *)
Verify(lost) ==
    /\ pc = "verify"
    /\ Inject(lost # {})
    /\ UNCHANGED <<backups, db, world, pre, fresh, unverified, written, calls>>
    /\ IF lost = {}
       THEN /\ UNCHANGED <<disk, outcome>>
            /\ pc' = "fact"
            /\ inv' = inv
       ELSE /\ disk' = [f \in DOMAIN disk \ lost |-> disk[f]]
            /\ Finish("error", "missingAfterWrite", inv)

(* Lines 405-456: the project-setup fact, then the success message. *)
StoreFact(ok) ==
    /\ pc = "fact"
    /\ Inject(~ok)
    /\ UNCHANGED <<disk, backups, deployments, ruleFiles, world, pre, fresh,
                   unverified, written, calls>>
    /\ IF ok
       THEN /\ facts' = facts + 1
            /\ Finish("deployed", "none", inv)
       ELSE /\ UNCHANGED facts
            /\ Finish("error", "storeFact", inv)

(* The response reaches the caller; the server is idle again.  An        *)
(* overlapping request is not followed beyond this point.                 *)
Return ==
    /\ pc = "done"
    /\ pc' = "idle"
    /\ inv' = NoInvocation
    /\ outcome' = NoOutcome
    /\ pre' = NoSnapshot
    /\ other' = NoOverlap
    /\ fresh' = (outcome.kind = "deployed")
    /\ unverified' = (outcome.cause = "missingAfterWrite")
    /\ UNCHANGED <<disk, backups, db, clock, release, elsewhere, written, budget>>

(* ------------------------ overlapping request ------------------------- *)

(* Lines 220-275 of a second setup_project_rules(force_update=false) for  *)
(* the same directory, started while the running invocation is at an      *)
(* await of its write path: write probe, inventory and the                *)
(* latest-deployment read.  The request is one of the invocations of the  *)
(* run and, for the running invocation, an event outside its control.     *)
OverlapRead ==
    /\ pc \in {"backup", "store", "write", "verify", "fact"}
    /\ other = NoOverlap
    /\ calls < MaxCalls
    /\ calls' = calls + 1
    /\ Inject(TRUE)
    /\ disk' = Remove(disk, ProbeFile)
    /\ \E latestDeployment \in getLatestRuleDeployment :
          other' = [phase |-> "read",
                    existingFiles |-> existingFilesOf(disk'),
                    existingHashes |-> existingHashesOf(disk', {}),
                    rows |-> Len(deployments),
                    latestDeployment |-> latestDeployment]
    /\ UNCHANGED <<backups, db, clock, release, elsewhere, pc, inv, outcome, pre,
                   fresh, unverified, written>>

(* Lines 277-345 of that request: getLatestRuleFiles (which runs the      *)
(* latest-deployment query again), rendering and the decision.  The       *)
(* request is followed when it returns "already up to date" or the drift  *)
(* warning; one that goes on to write stays pending.  On a table that     *)
(* has not changed the query returns the row it returned before.          *)
OverlapDecide ==
    /\ other.phase = "read"
    /\ \E filesOf \in (IF Len(deployments) = other.rows
                        THEN {other.latestDeployment}
                        ELSE getLatestRuleDeployment) :
         LET latestRuleFiles == getLatestRuleFiles(filesOf)
             decision == Decision(FALSE, other.existingFiles, other.existingHashes,
                                  latestRuleFiles, newRulesOf(clock))
         IN  /\ decision # "write"
             /\ other' = [phase |-> "done",
                          latestDeployment |-> other.latestDeployment,
                          filesOf |-> filesOf,
                          latestRuleFiles |-> latestRuleFiles,
                          kind |-> decision,
                          modified |-> modifiedFiles(latestRuleFiles,
                                                     other.existingHashes)]
    /\ UNCHANGED <<disk, backups, db, clock, release, elsewhere, pc, inv, outcome,
                   pre, fresh, unverified, written, budget>>

(* Lines 214-463 run as a whole, with no I/O failure and                  *)
(* backupExisting=false, on the rules directory of another workspacePath  *)
(* (lines 221-231): the inventory is that directory's, the baseline and   *)
(* the rows written are those of the one ContextDatabase.                 *)
InvokeElsewhere(forceUpdate) ==
    /\ pc = "idle"
    /\ Inject(TRUE)
    /\ UNCHANGED <<disk, backups, clock, release, other, pc, inv, outcome, pre,
                   fresh, unverified, written, calls>>
    /\ \E latestDeployment \in getLatestRuleDeployment :
         LET existingFiles == existingFilesOf(elsewhere.disk)
             existingHashes == existingHashesOf(elsewhere.disk, {})
             latestRuleFiles == getLatestRuleFiles(latestDeployment)
             newRules == newRulesOf(clock)
             deploymentId == Len(deployments) + 1
         IN  IF Decision(forceUpdate, existingFiles, existingHashes,
                         latestRuleFiles, newRules) = "write"
             THEN /\ deployments' = storeRuleDeployment(TEMPLATE_VERSION,
                                        newRulesLength(newRules, existingFiles),
                                        NoActor, NoPath)
                  /\ ruleFiles' = ruleFiles \o
                        [i \in 1..Len(TemplateNames) |->
                            [id |-> Len(ruleFiles) + i,
                             deploymentId |-> deploymentId,
                             filename |-> TemplateNames[i],
                             contentHash |-> newHashesOf(newRules)[TemplateNames[i]],
                             deployedAt |-> CURRENT_TIMESTAMP]]
                  /\ facts' = facts + 1
                  /\ elsewhere' = [disk |-> newRules,
                                   ids |-> elsewhere.ids \cup {deploymentId}]
             ELSE UNCHANGED <<db, elsewhere>>

(* --------------------------- environment ------------------------------ *)

(* Someone creates a file in the rules directory or changes its content. *)
ExternalEdit(f, content) ==
    /\ pc = "idle"
    /\ Inject(TRUE)
    /\ f \in DOMAIN disk => disk[f] # content
    /\ disk' = Put(disk, f, content)
    /\ fresh' = FALSE
    /\ unverified' = FALSE
    /\ UNCHANGED <<backups, db, world, pc, inv, outcome, pre, written, calls>>

(* Someone deletes a file of the rules directory. *)
ExternalDelete(f) ==
    /\ pc = "idle"
    /\ Inject(TRUE)
    /\ f \in DOMAIN disk
    /\ disk' = Remove(disk, f)
    /\ fresh' = FALSE
    /\ unverified' = FALSE
    /\ UNCHANGED <<backups, db, world, pc, inv, outcome, pre, written, calls>>

(* Time passes between invocations. *)
Tick ==
    /\ pc = "idle"
    /\ Inject(TRUE)
    /\ clock' = clock + 1
    /\ UNCHANGED <<disk, backups, db, release, elsewhere, other, pc, inv,
                   outcome, pre, fresh, unverified, written, calls>>

(* A new release of the server is installed and started: the database is  *)
(* closed and initialized again (createTables, runMigrations), the        *)
(* template contents are other ones, and the restart ends in a later      *)
(* second than the stop began.                                            *)
Upgrade ==
    /\ pc = "idle"
    /\ release < MaxRelease
    /\ Inject(TRUE)
    /\ release' = release + 1
    /\ clock' = (CURRENT_TIMESTAMP + 1) * TicksPerSecond
    /\ deployments' = runMigrations(deployments)
    /\ fresh' = FALSE
    /\ unverified' = FALSE
    /\ UNCHANGED <<disk, backups, ruleFiles, facts, elsewhere, other, pc, inv,
                   outcome, pre, written, calls>>

Next ==
    \/ \E forceUpdate \in BOOLEAN, backupExisting \in BOOLEAN,
          deployedBy \in Actors, fault \in ProbeFaults,
          readFail \in SUBSET existingFilesOf(disk) :
            Invoke(forceUpdate, backupExisting, deployedBy, fault, readFail)
    \/ \E fault \in BackupFaults, copied \in SUBSET TemplateNameSet :
            Backup(fault, copied)
    \/ \E ok \in BOOLEAN : StoreDeployment(ok)
    \/ \E fault \in WriteFaults : WriteRule(fault)
    \/ \E lost \in SUBSET TemplateNameSet : Verify(lost)
    \/ \E ok \in BOOLEAN : StoreFact(ok)
    \/ Return
    \/ OverlapRead
    \/ OverlapDecide
    \/ \E forceUpdate \in BOOLEAN : InvokeElsewhere(forceUpdate)
    \/ \E f \in FileNames : \E content \in EditContents(f) : ExternalEdit(f, content)
    \/ \E f \in FileNames : ExternalDelete(f)
    \/ Tick
    \/ Upgrade

Spec == Init /\ [][Next]_vars

(* ------------------------------ claims -------------------------------- *)

Busy == pc # "idle"
Ended(kind) == pc = "done" /\ outcome.kind = kind
Artifacts(dir) == [f \in existingFilesOf(dir) |-> dir[f]]
Desired(f) == RenderTimestamp(CURSOR_RULES_TEMPLATES(release)[f], inv.now)
NewDeployment == deployments[Len(deployments)]
RecordsOf(id) == {i \in 1..Len(ruleFiles) : ruleFiles[i].deploymentId = id}

(* The invocation got past the probe and the reads without an I/O error. *)
ReadsSucceeded == inv.fault = "none" /\ inv.readFail = {}

(* C1 (idempotence): an invocation with forceUpdate=false that follows an *)
(* invocation which returned "deployed", with the same release and no     *)
(* change to the directory in between, returns "already up to date" and   *)
(* leaves the Deployment rows as they were.                               *)
C1_Idempotence ==
    (Busy /\ inv.after /\ ~inv.forceUpdate /\ ReadsSucceeded)
        => /\ Ended("uptodate")
           /\ deployments = pre.deployments

C1_Witness ==
    /\ Ended("uptodate")
    /\ inv.after
    /\ ~inv.forceUpdate
    /\ Len(deployments) = 1
    /\ inv.now > 0

(* A file of the latest deployment whose readable content on disk has a   *)
(* hash other than the recorded one.                                      *)
Drifted(rf) ==
    /\ rf \in inv.latestRuleFiles
    /\ rf.filename \in DOMAIN pre.disk
    /\ rf.filename \notin inv.readFail
    /\ generateHash(pre.disk[rf.filename]) # rf.contentHash

(* C2 (drift detection): when the latest deployment records hash h1 for   *)
(* file A, A on disk has another hash and forceUpdate=false, the          *)
(* invocation returns the drift warning, the warning lists A, and no      *)
(* managed file is written.                                               *)
C2_DriftDetection ==
    \A rf \in (IF Busy THEN inv.latestRuleFiles ELSE {}) :
        (Drifted(rf) /\ ~inv.forceUpdate /\ inv.fault = "none")
            => /\ Ended("drift")
               /\ rf.filename \in outcome.modified
               /\ Artifacts(disk) = Artifacts(pre.disk)
               /\ written = pre.written

C2_Witness ==
    /\ Ended("drift")
    /\ \E rf \in inv.latestRuleFiles :
          /\ Drifted(rf)
          /\ rf.contentHash # generateHash(Desired(rf.filename))
    /\ ~inv.forceUpdate

(* Files whose content at the start of the invocation was not what the    *)
(* tool last wrote to them.                                               *)
EditedSinceWritten ==
    {f \in DOMAIN pre.disk \cap DOMAIN pre.written : pre.disk[f] # pre.written[f]}

(* C3 (no accidental overwrite): an invocation with forceUpdate=false     *)
(* leaves every managed file that was changed outside the tool since the  *)
(* tool last wrote it with the content it had.                            *)
C3_NoAccidentalOverwrite ==
    (Busy /\ ~inv.forceUpdate)
        => \A f \in EditedSinceWritten :
              f \in DOMAIN disk => disk[f] = pre.disk[f]

(* C4 (force overrides everything): with forceUpdate=true and a non-empty *)
(* inventory the invocation never ends in "already up to date" or the     *)
(* drift warning, and when it returns "deployed" it has appended one      *)
(* Deployment whose record for every artifact holds the hash of the       *)
(* freshly rendered content of that artifact.                             *)
C4_ForceOverrides ==
    (Busy /\ inv.forceUpdate /\ existingFilesOf(pre.disk) # {})
        => /\ pc = "done" => outcome.kind \in {"deployed", "error"}
           /\ (pc = "done" /\ inv.fault # "none") => outcome.kind = "error"
           /\ Ended("deployed") =>
                /\ Len(deployments) = Len(pre.deployments) + 1
                /\ \A f \in TemplateNameSet :
                     \E i \in RecordsOf(NewDeployment.id) :
                        /\ ruleFiles[i].filename = f
                        /\ ruleFiles[i].contentHash = generateHash(Desired(f))
                /\ \A i \in RecordsOf(NewDeployment.id) :
                     ruleFiles[i].contentHash
                         = generateHash(Desired(ruleFiles[i].filename))

C4_Witness ==
    /\ Ended("deployed")
    /\ inv.forceUpdate
    /\ \E rf \in inv.latestRuleFiles : Drifted(rf)
    /\ \E f \in TemplateNameSet : pre.disk[f] # Desired(f)

(* C5 (first run): when the directory holds no .mdc file the invocation   *)
(* never ends in "already up to date" or the drift warning, whatever      *)
(* forceUpdate and the history are, and when it returns "deployed" every  *)
(* one of the N artifacts is on disk with its rendered content and the    *)
(* new Deployment has fileCount N.                                        *)
C5_FirstRun ==
    (Busy /\ existingFilesOf(pre.disk) = {})
        => /\ pc = "done" => outcome.kind \in {"deployed", "error"}
           /\ (pc = "done" /\ inv.fault = "none" /\ outcome.kind = "error")
                 => outcome.cause \in {"storeRuleDeployment", "writeFile",
                                       "storeRuleFile", "missingAfterWrite",
                                       "storeFact"}
           /\ Ended("deployed") =>
                /\ Len(deployments) = Len(pre.deployments) + 1
                /\ NewDeployment.totalFiles = Len(TemplateNames)
                /\ \A f \in TemplateNameSet :
                      f \in DOMAIN disk /\ disk[f] = Desired(f)

C5_Witness ==
    /\ Ended("deployed")
    /\ existingFilesOf(pre.disk) = {}
    /\ ~inv.forceUpdate
    /\ Len(pre.deployments) > 0
    /\ inv.latestRuleFiles # {}

(* C6 (template-change propagation): when no file of the latest           *)
(* deployment has drifted but the rendered hash of some artifact differs  *)
(* from the hash the latest deployment records for it, an invocation with *)
(* forceUpdate=false goes on to write: it ends in "deployed", or in an    *)
(* error of the write phase, never in "already up to date" or the drift   *)
(* warning.                                                               *)
TemplateChanged ==
    \E rf \in inv.latestRuleFiles :
        /\ rf.filename \in TemplateNameSet
        /\ rf.contentHash # generateHash(Desired(rf.filename))

NoDrift ==
    \A rf \in inv.latestRuleFiles :
        rf.filename \in DOMAIN pre.disk
            => generateHash(pre.disk[rf.filename]) = rf.contentHash

C6_TemplateChangePropagation ==
    (Busy /\ ~inv.forceUpdate /\ inv.fault = "none" /\ NoDrift /\ TemplateChanged)
        => /\ pc = "done" => outcome.kind \in {"deployed", "error"}
           /\ Ended("error")
                 => outcome.cause \in {"backupMkdir", "backupCopy",
                                       "storeRuleDeployment", "writeFile",
                                       "storeRuleFile", "missingAfterWrite",
                                       "storeFact"}

C6_Witness ==
    /\ Ended("deployed")
    /\ ~inv.forceUpdate
    /\ NoDrift
    /\ TemplateChanged
    /\ existingFilesOf(pre.disk) = TemplateNameSet

(* C7 (no-op and drift warning change nothing): when an invocation ends   *)
(* in "already up to date" or the drift warning, every file of the        *)
(* directory, the backups, the Deployment and DeployedFileRecord rows and *)
(* the facts are as they were when it started.                            *)
C7_NoOpChangesNothing ==
    (Ended("uptodate") \/ Ended("drift"))
        => /\ disk = pre.disk
           /\ backups = pre.backups
           /\ deployments = pre.deployments
           /\ ruleFiles = pre.ruleFiles
           /\ facts = pre.facts

(* C8 (backup is fail-closed): when the backup fails the invocation ends  *)
(* in an error, no managed file has been written and no Deployment or     *)
(* DeployedFileRecord row has been appended.                              *)
BackupFailed == pc = "done" /\ outcome.cause \in {"backupMkdir", "backupCopy"}

C8_BackupFailClosed ==
    /\ BackupFailed
        => /\ outcome.kind = "error"
           /\ Artifacts(disk) = Artifacts(pre.disk)
           /\ written = pre.written
           /\ deployments = pre.deployments
           /\ ruleFiles = pre.ruleFiles
    /\ (Busy /\ inv.backupExisting /\ existingFilesOf(pre.disk) # {}
             /\ (deployments # pre.deployments \/ ruleFiles # pre.ruleFiles
                 \/ Artifacts(disk) # Artifacts(pre.disk)))
        => /\ inv.backupPath \in DOMAIN backups
           /\ existingFilesOf(pre.disk) \subseteq DOMAIN backups[inv.backupPath]

C8_Witness ==
    /\ BackupFailed
    /\ outcome.cause = "backupCopy"
    /\ inv.forceUpdate
    /\ Cardinality(existingFilesOf(pre.disk)) = 2
    /\ backupPathOf(inv.now) \in DOMAIN backups
    /\ DOMAIN backups[backupPathOf(inv.now)] # {}

(* C9 (backup content and ordering): in a write with backup requested and *)
(* a non-empty inventory, from the first artifact write on the backup     *)
(* directory of the invocation holds a copy of every managed file that    *)
(* existed, with the content the file had before the write, and the new   *)
(* Deployment records that directory.                                     *)
Writing ==
    \/ pc \in {"write", "verify", "fact"}
    \/ Ended("deployed")
    \/ pc = "done" /\ outcome.cause \in {"writeFile", "storeRuleFile",
                                          "missingAfterWrite", "storeFact"}

C9_BackupBeforeWrite ==
    (Writing /\ inv.backupExisting /\ existingFilesOf(pre.disk) # {})
        => /\ inv.backupPath \in DOMAIN backups
           /\ NewDeployment.backupPath = inv.backupPath
           /\ \A f \in existingFilesOf(pre.disk) :
                 /\ f \in DOMAIN backups[inv.backupPath]
                 /\ backups[inv.backupPath][f] = pre.disk[f]

C9_Witness ==
    /\ Ended("deployed")
    /\ inv.backupExisting
    /\ \E f \in existingFilesOf(pre.disk) :
          /\ pre.disk[f] = UserContent
          /\ disk[f] # pre.disk[f]
          /\ backups[inv.backupPath][f] = UserContent

(* C10 (fileCount invariant): between invocations every Deployment row's  *)
(* fileCount equals the number of DeployedFileRecord rows with its id.    *)
C10_FileCount ==
    pc = "idle"
        => \A i \in 1..Len(deployments) :
              deployments[i].totalFiles = Cardinality(RecordsOf(deployments[i].id))

(* C11 (history records only successful writes): a Deployment row is   *)
(* appended only once every artifact is written and verified, exactly one *)
(* per invocation that returns "deployed"; an invocation that ends in an  *)
(* error leaves the Deployment and DeployedFileRecord rows as they were.  *)
C11_HistoryOnlyOnSuccess ==
    /\ (Busy /\ deployments # pre.deployments) => (pc = "fact" \/ pc = "done")
    /\ Ended("deployed") => Len(deployments) = Len(pre.deployments) + 1
    /\ Ended("error") => /\ deployments = pre.deployments
                         /\ ruleFiles = pre.ruleFiles

(* C12 (history is append-only): over every step (an invocation of any   *)
(* outcome, a close and re-open of the database) a read of the deployment *)
(* history never shows fewer rows than a read with the same limit showed  *)
(* before the step, and a deployment id shown by both reads has the same  *)
(* templateVersion, deployedAt, deployedBy, fileCount and backupPath.     *)
(* A step that leaves the table as it is has nothing to compare.          *)
HistoryGrows ==
    \/ UNCHANGED deployments
    \/ \A limit \in 1..MaxLimit :
          \A before \in getRuleDeploymentHistory(limit) :
              \A after \in getRuleDeploymentHistory(limit)' :
                  /\ Cardinality(after) >= Cardinality(before)
                  /\ \A d \in before : \A e \in after : d.id = e.id => d = e

C12_AppendOnly == [][HistoryGrows]_vars

C12_Witness ==
    /\ pc = "idle"
    /\ release > 1
    /\ \E d \in Rows(deployments) :
          /\ d.deployedAt < CURRENT_TIMESTAMP
          /\ d.totalFiles = Len(TemplateNames)
          /\ \E rf \in getRuleFiles(d.id) :
                rf.contentHash = generateHash(CURSOR_RULES_TEMPLATES(1)[rf.filename])
                /\ rf.contentHash # generateHash(CURSOR_RULES_TEMPLATES(release)[rf.filename])

(* The branch the running invocation took. *)
Taken ==
    IF Ended("uptodate") THEN "uptodate"
    ELSE IF Ended("drift") THEN "drift" ELSE "write"

(* The latest-deployment query and the file records at the start of the   *)
(* invocation.                                                            *)
LatestOf(rows) ==
    IF rows = {} THEN {NoDeployment}
    ELSE {d \in rows : \A e \in rows : e.deployedAt <= d.deployedAt}

FilesOf(d) ==
    IF d = NoDeployment THEN {}
    ELSE {rf \in Rows(pre.ruleFiles) : rf.deploymentId = d.id}

(* C13 (latest deployment): the baseline an invocation reads is the       *)
(* Deployment with the greatest deployedAt and, among those of that       *)
(* second, the greatest id; the files read are exactly the                *)
(* DeployedFileRecords of that Deployment, and none when the history is   *)
(* empty.                                                                 *)
C13_LatestDeployment ==
    (Busy /\ inv.fault = "none")
        => /\ inv.latestDeployment \in LatestOf(Rows(pre.deployments))
           /\ \A e \in LatestOf(Rows(pre.deployments)) :
                 e.id <= inv.latestDeployment.id
           /\ inv.latestRuleFiles = FilesOf(inv.latestDeployment)
           /\ pre.deployments = <<>> => inv.latestRuleFiles = {}

(* C14 (independence of target directories): the branch an invocation    *)
(* takes, and the files a drift warning lists, are those that the files   *)
(* of its directory, the Deployments written for its directory and the    *)
(* inputs give; invocations on another directory change nothing of it.    *)
OwnDeployments == {d \in Rows(pre.deployments) : d.id \notin elsewhere.ids}

C14_DirectoryIndependence ==
    (Busy /\ inv.fault = "none")
        => \E d \in LatestOf(OwnDeployments) :
              /\ Taken = Decision(inv.forceUpdate, inv.existingFiles,
                                  inv.existingHashes, FilesOf(d), inv.newRules)
              /\ Ended("drift")
                    => outcome.modified = modifiedFiles(FilesOf(d), inv.existingHashes)

(* C15 (atomic visibility of a deployment): a request that overlaps an   *)
(* invocation and reads the latest deployment and its files never reads   *)
(* a Deployment row together with fewer DeployedFileRecords than the      *)
(* fileCount of that row.                                                 *)
C15_AtomicVisibility ==
    (other.phase = "done" /\ other.filesOf # NoDeployment)
        => Cardinality(other.latestRuleFiles) >= other.filesOf.totalFiles

(* C16 (storage failure leaves the managed directory untouched): when a *)
(* read or write of the history store fails (the latest-deployment read,  *)
(* storeRuleDeployment, a storeRuleFile), the invocation ends in an error *)
(* and has created or overwritten no managed file.                        *)
StorageFailed ==
    pc = "done" /\ outcome.cause \in {"dbRead", "storeRuleDeployment",
                                        "storeRuleFile"}

C16_StorageFailureNoWrite ==
    StorageFailed
        => /\ outcome.kind = "error"
           /\ Artifacts(disk) = Artifacts(pre.disk)
           /\ written = pre.written

(* C17 (target writability is checked first): when the directory cannot  *)
(* be created or written, the invocation ends in an error before the      *)
(* inventory is read, the history store is queried and the decision is    *)
(* taken, and no managed file, backup directory, Deployment row, file     *)
(* record or fact is created.                                             *)
ProbeFailed == Busy /\ inv.fault \in {"mkdir", "probeWrite", "probeUnlink"}

C17_WritabilityFirst ==
    ProbeFailed
        => /\ Ended("error")
           /\ inv.reached = {"probe"}
           /\ Artifacts(disk) = Artifacts(pre.disk)
           /\ written = pre.written
           /\ backups = pre.backups
           /\ deployments = pre.deployments
           /\ ruleFiles = pre.ruleFiles
           /\ facts = pre.facts

C17_Witness ==
    /\ Ended("error")
    /\ inv.fault = "probeWrite"
    /\ inv.forceUpdate
    /\ inv.backupExisting
    /\ existingFilesOf(pre.disk) # {}
    /\ pre.deployments # <<>>

(* C18 (drift warning content): a drift warning lists exactly the files  *)
(* of the latest deployment that are readable on disk with a hash other   *)
(* than the recorded one, and the timestamp and actor it shows are those  *)
(* of the Deployment whose file records were compared.  SerialWarning is  *)
(* the warning of the running invocation, OverlapWarning the warning of a *)
(* request that overlaps it.                                              *)
SerialWarning ==
    Ended("drift")
        => /\ outcome.modified = {rf.filename : rf \in {r \in inv.latestRuleFiles :
                                                           Drifted(r)}}
           /\ \A rf \in inv.latestRuleFiles :
                 rf.deploymentId = inv.latestDeployment.id

OverlapWarning ==
    (other.phase = "done" /\ other.kind = "drift")
        => /\ other.modified # {}
           /\ \A rf \in other.latestRuleFiles :
                 rf.deploymentId = other.latestDeployment.id

C18_DriftWarningContent == SerialWarning /\ OverlapWarning

(* C19 (write verification failure): when an artifact is missing after   *)
(* the write phase the invocation ends in an error and the artifacts      *)
(* written stay on disk with their new content; a following invocation    *)
(* with forceUpdate=false on that state does not return "already up to    *)
(* date": it gives the drift warning or goes on to write.                 *)
VerificationFailed == pc = "done" /\ outcome.cause = "missingAfterWrite"

C19_VerificationFailure ==
    /\ VerificationFailed
          => /\ outcome.kind = "error"
             /\ \E f \in TemplateNameSet : f \notin DOMAIN disk
             /\ \A f \in TemplateNameSet \cap DOMAIN disk : disk[f] = Desired(f)
    /\ (Busy /\ inv.afterLost /\ ~inv.forceUpdate)
          => /\ ~Ended("uptodate")
             /\ (pc = "done" /\ inv.fault = "none")
                   => \/ Ended("drift")
                      \/ Ended("deployed")
                      \/ outcome.cause \in {"backupMkdir", "backupCopy",
                                             "storeRuleDeployment", "writeFile",
                                             "storeRuleFile", "missingAfterWrite",
                                             "storeFact"}

C19_Witness ==
    /\ Ended("deployed")
    /\ inv.afterLost
    /\ ~inv.forceUpdate
    /\ existingFilesOf(pre.disk) # {}
    /\ \A f \in existingFilesOf(pre.disk) : pre.disk[f] = Desired(f)

(* C20 (backup presence): an invocation that returns "deployed" has made *)
(* a backup directory and recorded its path in the new Deployment exactly *)
(* when backup was requested and the inventory of managed files was not   *)
(* empty; with backupExisting=false, or on a first run, it makes no       *)
(* backup directory and the backupPath of the Deployment is absent.       *)
C20_BackupPresence ==
    Ended("deployed")
        => IF inv.backupExisting /\ existingFilesOf(pre.disk) # {}
           THEN /\ deployments[inv.deploymentId].backupPath = backupPathOf(inv.now)
                /\ backupPathOf(inv.now) \in DOMAIN backups
           ELSE /\ deployments[inv.deploymentId].backupPath = NoPath
                /\ backups = pre.backups

C20_Witness ==
    /\ Ended("deployed")
    /\ inv.backupExisting
    /\ inv.deploymentId = 2
    /\ deployments[1].backupPath = NoPath
    /\ deployments[2].backupPath \in DOMAIN backups
    /\ deployments[2].backupPath \notin DOMAIN pre.backups
    /\ 1 \notin elsewhere.ids

(* C21 (backups are distinct and immutable): an invocation never uses a  *)
(* backup directory that an earlier write used, and it leaves the files   *)
(* of every backup directory that existed when it started as they were.   *)
C21_BackupsImmutable ==
    Busy => /\ inv.backupPath # NoPath => inv.backupPath \notin DOMAIN pre.backups
            /\ \A p \in DOMAIN pre.backups :
                  p \in DOMAIN backups /\ backups[p] = pre.backups[p]

(* C23 (unreadable managed files are not fatal): a listed file that      *)
(* cannot be read counts as absent for the first-run test, drift, the     *)
(* template change and the backup: the branch taken is the one the        *)
(* readable files give, and when no listed file is readable no backup is  *)
(* attempted, so no backup step can end the invocation in an error.       *)
Readable == inv.existingFiles \ inv.readFail

C23_UnreadableAsAbsent ==
    (Busy /\ inv.fault = "none" /\ inv.readFail # {})
        => /\ Taken = Decision(inv.forceUpdate, Readable, inv.existingHashes,
                               inv.latestRuleFiles, inv.newRules)
           /\ Readable = {}
                => /\ pc # "backup"
                   /\ inv.backupPath = NoPath
                   /\ pc = "done" => outcome.cause \notin {"backupMkdir", "backupCopy"}

(* C24 (disk-versus-desired short-circuit).  The case: a managed file was *)
(* edited outside the tool, its content on disk is the freshly rendered   *)
(* content while the latest deployment records another hash for it, every *)
(* artifact on disk equals its rendered content, and forceUpdate=false.   *)
MatchesTemplateNotBaseline(rf) ==
    /\ Drifted(rf)
    /\ rf.filename \in EditedSinceWritten
    /\ \A f \in TemplateNameSet : f \in DOMAIN pre.disk /\ pre.disk[f] = Desired(f)
    /\ ~inv.forceUpdate
    /\ ReadsSucceeded

(* C24 as claimed: the invocation is classified as "already up to date". *)
C24_ShortCircuitUpToDate ==
    \A rf \in (IF Busy THEN inv.latestRuleFiles ELSE {}) :
        MatchesTemplateNotBaseline(rf) => Ended("uptodate")

(* C24 as amended: the invocation returns the drift warning, which lists  *)
(* the file, and writes nothing.                                          *)
C24_ShortCircuitIsDrift ==
    \A rf \in (IF Busy THEN inv.latestRuleFiles ELSE {}) :
        MatchesTemplateNotBaseline(rf)
            => /\ Ended("drift")
               /\ rf.filename \in outcome.modified
               /\ Artifacts(disk) = Artifacts(pre.disk)
               /\ deployments = pre.deployments

C24_Witness ==
    /\ Ended("drift")
    /\ \E rf \in inv.latestRuleFiles :
          /\ MatchesTemplateNotBaseline(rf)
          /\ rf.deploymentId \notin elsewhere.ids
    /\ release > 1

(* C26 (one record per deployment and file): after every step there is   *)
(* at most one DeployedFileRecord for each (deploymentId, filename) pair, *)
(* and every DeployedFileRecord that existed before the step is as it     *)
(* was.                                                                   *)
OneRecordPerFile ==
    \A i, j \in 1..Len(ruleFiles) :
        (/\ ruleFiles[i].deploymentId = ruleFiles[j].deploymentId
         /\ ruleFiles[i].filename = ruleFiles[j].filename) => i = j

RecordsKept ==
    \/ UNCHANGED ruleFiles
    \/ /\ Len(ruleFiles') >= Len(ruleFiles)
       /\ \A i \in 1..Len(ruleFiles) : ruleFiles'[i] = ruleFiles[i]
       /\ OneRecordPerFile'

C26_RecordsUniqueAndKept == [][RecordsKept]_vars

C26_Witness ==
    /\ pc = "idle"
    /\ OneRecordPerFile
    /\ \E i, j \in 1..Len(ruleFiles) :
          /\ ruleFiles[i].filename = ruleFiles[j].filename
          /\ ruleFiles[i].deploymentId < ruleFiles[j].deploymentId
          /\ ruleFiles[i].contentHash # ruleFiles[j].contentHash

(* C27 (outcome shape): an invocation ends in exactly one of "already up *)
(* to date", the drift warning, "deployed" or one failure that carries    *)
(* its cause; the drift warning is a normal result; every error raised in *)
(* a step ends the invocation in that failure at once, and nothing is     *)
(* tried again after the end.                                             *)
OutcomeShape ==
    pc = "done"
        => /\ outcome.kind \in {"uptodate", "drift", "deployed", "error"}
           /\ outcome.kind = "error" <=> outcome.cause # "none"
           /\ outcome.kind = "drift" => outcome.modified # {}

(* A step of the running invocation in which an I/O operation failed. *)
StepFailed ==
    \/ pc = "idle" /\ pc' # "idle" /\ inv'.fault # "none"
    \/ pc \notin {"idle", "done"} /\ events' > events /\ other' = other

OutcomeStep ==
    /\ OutcomeShape'
    /\ StepFailed => pc' = "done" /\ outcome'.kind = "error"
    /\ (pc' = "done" /\ ~StepFailed /\ pc # "done")
         => outcome'.kind \in {"uptodate", "drift", "deployed"}
    /\ pc = "done"
         => /\ pc' \in {"done", "idle"}
            /\ pc' = "done" => UNCHANGED outcome
            /\ UNCHANGED <<disk, backups, db>>

C27_OutcomeShape == [][OutcomeStep]_vars

C27_Witness ==
    /\ Ended("error")
    /\ outcome.cause = "writeFile"
    /\ Len(inv.deployedFiles) = 1
    /\ ~inv.forceUpdate
    /\ existingFilesOf(pre.disk) # {}

(* C30 (a deleted managed file is a template change, not drift): when a  *)
(* file of the latest deployment that is also a template is absent from   *)
(* disk, another managed file remains and no remaining file differs from  *)
(* its recorded hash, an invocation with forceUpdate=false gives no drift *)
(* warning and no "already up to date": it goes on to write, and when it  *)
(* returns "deployed" the file is on disk again with its rendered         *)
(* content.                                                               *)
DeletedFiles ==
    {rf.filename : rf \in {r \in inv.latestRuleFiles :
                              /\ r.filename \in TemplateNameSet
                              /\ r.filename \notin DOMAIN pre.disk}}

C30_DeletedFileIsTemplateChange ==
    (/\ Busy
     /\ ~inv.forceUpdate
     /\ ReadsSucceeded
     /\ DeletedFiles # {}
     /\ existingFilesOf(pre.disk) # {}
     /\ NoDrift)
        => /\ pc = "done" => outcome.kind \in {"deployed", "error"}
           /\ Ended("error")
                 => outcome.cause \in {"backupMkdir", "backupCopy",
                                       "storeRuleDeployment", "writeFile",
                                       "storeRuleFile", "missingAfterWrite",
                                       "storeFact"}
           /\ Ended("deployed")
                 => \A f \in DeletedFiles : f \in DOMAIN disk /\ disk[f] = Desired(f)

C30_Witness ==
    /\ Ended("deployed")
    /\ ~inv.forceUpdate
    /\ DeletedFiles # {}
    /\ existingFilesOf(pre.disk) # {}
    /\ NoDrift
    /\ \A f \in DeletedFiles : f \in DOMAIN pre.written
    /\ \A rf \in inv.latestRuleFiles : rf.deploymentId \notin elsewhere.ids

(* ------------------- setupProjectRules: target directory -------------- *)
(* A path is the sequence of the pieces of its string: the separator and   *)
(* pieces of names.  Two neighbouring name pieces are one name, so         *)
(* <<"a", ".cursor">> is the single name "a.cursor".  No piece is a        *)
(* concatenation of others, so a string ends with ".cursor/rules" exactly  *)
(* when its pieces end with RulesSubpath.  POSIX separators.               *)
Sep == "/"
DotDot == <<"..">>
PathPieces == {Sep, "a", ".cursor", "rules", ".."}
Paths == UNION {[1..n -> PathPieces] : n \in 0..MaxPathLen}

\* path.join(".cursor", "rules")
RulesSubpath == <<".cursor", Sep, "rules">>

\* process.cwd()
Cwd == <<Sep, "a">>

\* String.prototype.endsWith
endsWith(p, suffix) ==
    /\ Len(p) >= Len(suffix)
    /\ SubSeq(p, Len(p) - Len(suffix) + 1, Len(p)) = suffix

\* the names of a path, the empty ones between two separators included
RECURSIVE Segments(_)
Segments(p) ==
    IF p = <<>> THEN << <<>> >>
    ELSE LET rest == Segments(Tail(p))
         IN  IF Head(p) = Sep THEN << <<>> >> \o rest
             ELSE << <<Head(p)>> \o Head(rest) >> \o Tail(rest)

\* path.normalize's loop: empty names dropped, ".." takes back the name
\* before it, and above the start it is kept by a relative path only
RECURSIVE normalizeString(_, _, _)
normalizeString(segs, allowAboveRoot, res) ==
    IF segs = <<>> THEN res
    ELSE LET s == Head(segs)
             n == Len(res)
         IN  normalizeString(Tail(segs), allowAboveRoot,
                 IF s = <<>> THEN res
                 ELSE IF s = DotDot
                      THEN IF n > 0 /\ res[n] # DotDot THEN SubSeq(res, 1, n - 1)
                           ELSE IF allowAboveRoot THEN Append(res, s)
                           ELSE res
                      ELSE Append(res, s))

RECURSIVE Unsplit(_)
Unsplit(segs) ==
    IF segs = <<>> THEN <<>>
    ELSE IF Len(segs) = 1 THEN Head(segs)
    ELSE Head(segs) \o <<Sep>> \o Unsplit(Tail(segs))

isAbsolute(p) == p # <<>> /\ Head(p) = Sep

\* path.join(p, ".cursor", "rules"): the arguments joined by the separator,
\* then normalized
pathJoin(p) ==
    LET joined == p \o <<Sep>> \o RulesSubpath
        names == normalizeString(Segments(joined), ~isAbsolute(joined), <<>>)
    IN  (IF isAbsolute(joined) THEN <<Sep>> ELSE <<>>) \o Unsplit(names)

resolveRulesDir(workspacePath) ==
    IF workspacePath # <<>>
    THEN IF endsWith(workspacePath, RulesSubpath)
         THEN workspacePath
         ELSE pathJoin(workspacePath)
    ELSE pathJoin(Cwd)

(* A run of the resolution alone: any workspacePath, resolved, and the     *)
(* result given back as the workspacePath of a next call.                  *)
PathInit ==
    /\ disk = EmptyMap
    /\ backups = EmptyMap
    /\ deployments = <<>>
    /\ ruleFiles = <<>>
    /\ facts = 0
    /\ clock = 0
    /\ release = 1
    /\ elsewhere = [disk |-> EmptyMap, ids |-> {}]
    /\ other = NoOverlap
    /\ pc = "idle"
    /\ inv \in {[workspacePath |-> p] : p \in Paths}
    /\ outcome = NoOutcome
    /\ pre = NoSnapshot
    /\ fresh = FALSE
    /\ unverified = FALSE
    /\ written = EmptyMap
    /\ calls = 0
    /\ events = 0

ResolveRulesDir ==
    /\ pc = "idle"
    /\ pc' = "resolved"
    /\ outcome' = [rulesDir |-> resolveRulesDir(inv.workspacePath)]
    /\ UNCHANGED <<disk, backups, db, world, inv, pre, fresh, unverified,
                   written, budget>>

ResolveResolved ==
    /\ pc = "resolved"
    /\ pc' = "again"
    /\ inv' = [workspacePath |-> outcome.rulesDir]
    /\ outcome' = [rulesDir |-> resolveRulesDir(outcome.rulesDir)]
    /\ UNCHANGED <<disk, backups, db, world, pre, fresh, unverified,
                   written, budget>>

PathNext == ResolveRulesDir \/ ResolveResolved
PathSpec == PathInit /\ [][PathNext]_vars


(* C25 (target directory resolution never double-appends): for every      *)
(* workspacePath the resolved directory ends in the names ".cursor",       *)
(* "rules" once and not twice in a row; a workspacePath that already ends  *)
(* in these two names, with or without a trailing separator, is the        *)
(* resolved directory as it stands; and resolving a resolved directory     *)
(* gives it back unchanged.                                                *)
Names(p) == SelectSeq(Segments(p), LAMBDA s : s # <<>>)
RulesNames == << <<".cursor">>, <<"rules">> >>
EndsInRulesOnce(p) ==
    /\ endsWith(Names(p), RulesNames)
    /\ ~endsWith(Names(p), RulesNames \o RulesNames)
WithoutTrailingSep(p) ==
    IF Len(p) > 1 /\ p[Len(p)] = Sep THEN SubSeq(p, 1, Len(p) - 1) ELSE p

C25_EndsInRulesOnce ==
    (pc = "resolved" /\ ~endsWith(Names(inv.workspacePath), RulesNames \o RulesNames))
        => EndsInRulesOnce(outcome.rulesDir)
C25_UsedAsIs ==
    (pc = "resolved" /\ endsWith(Names(inv.workspacePath), RulesNames))
        => outcome.rulesDir \in {inv.workspacePath, WithoutTrailingSep(inv.workspacePath)}
C25_Idempotent ==
    pc = "again" => outcome.rulesDir = inv.workspacePath

C25_NoDoubleAppend ==
    /\ C25_EndsInRulesOnce
    /\ C25_UsedAsIs
    /\ C25_Idempotent


(* ---------------- ContextDatabase called on its own ------------------- *)
(* The methods of ContextDatabase are public: here storeRuleDeployment    *)
(* and storeRuleFile are called with any arguments, in any order, and     *)
(* each call either runs its INSERT or fails on an SQLite error.          *)
DeploymentIds == 0..MaxCalls

StoreRuleDeploymentCall(totalFiles, deployedBy, ok) ==
    /\ pc = "idle"
    /\ calls < MaxCalls
    /\ calls' = calls + 1
    /\ Inject(~ok)
    /\ pc' = "done"
    /\ pre' = Snapshot
    /\ inv' = [api |-> "storeRuleDeployment", deploymentId |-> Len(deployments) + 1]
    /\ deployments' = IF ok
                      THEN storeRuleDeployment(TEMPLATE_VERSION, totalFiles,
                                               deployedBy, NoPath)
                      ELSE deployments
    /\ outcome' = [kind |-> IF ok THEN "stored" ELSE "error",
                   cause |-> IF ok THEN "none" ELSE "storeRuleDeployment",
                   modified |-> {}]
    /\ UNCHANGED <<disk, backups, ruleFiles, facts, world, fresh, unverified,
                   written>>

StoreRuleFileCall(deploymentId, filename, content, ok) ==
    /\ pc = "idle"
    /\ calls < MaxCalls
    /\ calls' = calls + 1
    /\ Inject(~ok)
    /\ pc' = "done"
    /\ pre' = Snapshot
    /\ inv' = [api |-> "storeRuleFile", deploymentId |-> deploymentId]
    /\ ruleFiles' = IF ok
                    THEN storeRuleFile(deploymentId, filename, generateHash(content))
                    ELSE ruleFiles
    /\ outcome' = [kind |-> IF ok THEN "stored" ELSE "error",
                   cause |-> IF ok THEN "none" ELSE "storeRuleFile",
                   modified |-> {}]
    /\ UNCHANGED <<disk, backups, deployments, facts, world, fresh, unverified,
                   written>>

StoreNext ==
    \/ \E totalFiles \in {Len(TemplateNames)}, deployedBy \in Actors,
          ok \in BOOLEAN :
            StoreRuleDeploymentCall(totalFiles, deployedBy, ok)
    \/ \E deploymentId \in DeploymentIds, filename \in TemplateNameSet,
          ok \in BOOLEAN :
            \E content \in EditContents(filename) :
                StoreRuleFileCall(deploymentId, filename, content, ok)
    \/ Return

StoreSpec == Init /\ [][StoreNext]_vars

(* C22 (no record without its deployment): storeRuleFile called with a    *)
(* deploymentId that no row of rule_deployments has fails and appends no  *)
(* record, so every record of rule_files names an existing deployment.    *)
DeploymentExists(table, deploymentId) ==
    \E i \in 1..Len(table) : table[i].id = deploymentId

C22_InvalidReference ==
    /\ \A i \in 1..Len(ruleFiles) :
          DeploymentExists(deployments, ruleFiles[i].deploymentId)
    /\ (/\ pc = "done"
        /\ inv.api = "storeRuleFile"
        /\ ~DeploymentExists(pre.deployments, inv.deploymentId))
           => /\ outcome.kind = "error"
              /\ ruleFiles = pre.ruleFiles

(* ------------------- CallToolRequestSchema handler -------------------- *)
(* Lines 142-211: the tool named by the request is run inside one try;    *)
(* what it throws goes through the catch at 199-209 and the reply or the  *)
(* error reaches the caller (pc "replied").  setup_project_rules runs     *)
(* the steps of setupProjectRules above; the other tools are one step.    *)
NoArg == "<undefined>"
ArgValues == {NoArg, "", "text"}
KnownTools == {"remember_fact", "recall_facts", "setup_project_rules"}
ToolNames == KnownTools \cup {"forget_fact"}

\* !value of an optional string argument
Falsy(value) == value \in {NoArg, ""}

McpError(code) == [mcp |-> TRUE, code |-> code]
PlainError == [mcp |-> FALSE, code |-> "none"]
NoError == [mcp |-> FALSE, code |-> "ok"]

(* Lines 457-462: whatever setupProjectRules caught is thrown again as an *)
(* McpError InternalError; a result is returned as it is.                 *)
setupProjectRulesThrown(result) ==
    IF result.kind = "error" THEN McpError("InternalError") ELSE NoError

(* Faulty variant: every error is wrapped, an McpError too. *)
handlerCatch_WrapAll(error) ==
    IF error = NoError THEN NoError ELSE McpError("InternalError")

(* Lines 199-209: an McpError is thrown again as it is, anything else is  *)
(* wrapped into an McpError InternalError.                                *)
handlerCatch(error) ==
    IF error = NoError THEN NoError
    ELSE IF error.mcp THEN error
    ELSE McpError("InternalError")

Reply(tool, kind, cause, modified, error) ==
    [tool |-> tool,
     kind |-> IF error = NoError THEN kind ELSE "error",
     cause |-> cause,
     modified |-> modified,
     code |-> handlerCatch(error).code]

(* Lines 188-194: the result or the error of setupProjectRules. *)
SetupReply ==
    /\ pc = "done"
    /\ pc' = "replied"
    /\ outcome' = Reply("setup_project_rules", outcome.kind, outcome.cause,
                        outcome.modified, setupProjectRulesThrown(outcome))
    /\ UNCHANGED <<disk, backups, db, world, inv, pre, fresh, unverified,
                   written, budget>>

(* Lines 147-167: remember_fact. *)
RememberFact(category, fact, ok) ==
    /\ pc = "idle"
    /\ calls < MaxCalls
    /\ calls' = calls + 1
    /\ pc' = "replied"
    /\ pre' = Snapshot
    /\ inv' = [name |-> "remember_fact", category |-> category, fact |-> fact]
    /\ IF Falsy(category) \/ Falsy(fact)
       THEN /\ ok
            /\ UNCHANGED <<facts, events>>
            /\ outcome' = Reply("remember_fact", "error", "validation", {},
                                McpError("InvalidParams"))
       ELSE /\ Inject(~ok)
            /\ facts' = IF ok THEN facts + 1 ELSE facts
            /\ outcome' = Reply("remember_fact", "stored",
                                IF ok THEN "none" ELSE "storeFact", {},
                                IF ok THEN NoError ELSE PlainError)
    /\ UNCHANGED <<disk, backups, deployments, ruleFiles, world, fresh,
                   unverified, written>>

(* Lines 169-186: recall_facts, a query. *)
RecallFacts(category, ok) ==
    /\ pc = "idle"
    /\ calls < MaxCalls
    /\ calls' = calls + 1
    /\ pc' = "replied"
    /\ pre' = Snapshot
    /\ inv' = [name |-> "recall_facts", category |-> category, fact |-> NoArg]
    /\ Inject(~ok)
    /\ outcome' = Reply("recall_facts", "facts",
                        IF ok THEN "none" ELSE "getFacts", {},
                        IF ok THEN NoError ELSE PlainError)
    /\ UNCHANGED <<disk, backups, db, world, fresh, unverified, written>>

(* Lines 196-200: the default case. *)
UnknownTool(name, category, fact) ==
    /\ pc = "idle"
    /\ name \notin KnownTools
    /\ calls < MaxCalls
    /\ calls' = calls + 1
    /\ pc' = "replied"
    /\ pre' = Snapshot
    /\ inv' = [name |-> name, category |-> category, fact |-> fact]
    /\ outcome' = Reply(name, "error", "default", {}, McpError("MethodNotFound"))
    /\ UNCHANGED <<disk, backups, db, world, fresh, unverified, written, events>>

HandlerReturn ==
    /\ pc = "replied"
    /\ pc' = "idle"
    /\ inv' = NoInvocation
    /\ outcome' = NoOutcome
    /\ pre' = NoSnapshot
    /\ other' = NoOverlap
    /\ fresh' = (outcome.kind = "deployed")
    /\ unverified' = (outcome.cause = "missingAfterWrite")
    /\ UNCHANGED <<disk, backups, db, clock, release, elsewhere, written, budget>>

HandlerNext ==
    \/ \E forceUpdate \in BOOLEAN, backupExisting \in BOOLEAN,
          deployedBy \in Actors, fault \in ProbeFaults,
          readFail \in SUBSET existingFilesOf(disk) :
            Invoke(forceUpdate, backupExisting, deployedBy, fault, readFail)
    \/ \E fault \in BackupFaults, copied \in SUBSET TemplateNameSet :
            Backup(fault, copied)
    \/ \E ok \in BOOLEAN : StoreDeployment(ok)
    \/ \E fault \in WriteFaults : WriteRule(fault)
    \/ \E lost \in SUBSET TemplateNameSet : Verify(lost)
    \/ \E ok \in BOOLEAN : StoreFact(ok)
    \/ SetupReply
    \/ \E category \in ArgValues, fact \in ArgValues, ok \in BOOLEAN :
            RememberFact(category, fact, ok)
    \/ \E category \in ArgValues, ok \in BOOLEAN : RecallFacts(category, ok)
    \/ \E name \in ToolNames, category \in ArgValues, fact \in ArgValues :
            UnknownTool(name, category, fact)
    \/ HandlerReturn

HandlerSpec == Init /\ [][HandlerNext]_vars

(* C29 (tool-call validation): a remember_fact call whose category or     *)
(* fact is missing is answered by the error InvalidParams and stores no   *)
(* fact; a call that names an unknown tool is answered by MethodNotFound  *)
(* and changes neither files nor tables; every other error of a tool      *)
(* reaches the caller as an InternalError.                                *)
Rejected == outcome.tool = "remember_fact" /\ (Falsy(inv.category) \/ Falsy(inv.fact))
Unknown == outcome.tool \notin KnownTools

C29_ToolCallValidation ==
    pc = "replied"
        => /\ Rejected => /\ outcome.kind = "error"
                          /\ outcome.code = "InvalidParams"
                          /\ facts = pre.facts
           /\ Unknown => /\ outcome.kind = "error"
                         /\ outcome.code = "MethodNotFound"
                         /\ <<disk, backups, deployments, ruleFiles, facts>>
                              = <<pre.disk, pre.backups, pre.deployments,
                                  pre.ruleFiles, pre.facts>>
           /\ (outcome.kind = "error" /\ ~Rejected /\ ~Unknown)
                 => outcome.code = "InternalError"
           /\ outcome.code = "ok" <=> outcome.kind # "error"

C29_Witness ==
    /\ pc = "replied"
    /\ Rejected
    /\ inv.category = NoArg
    /\ ~Falsy(inv.fact)
    /\ pre.facts > 0
    /\ pre.deployments # <<>>


(* C31 (post-deploy consistency): when an invocation has returned         *)
(* "deployed", for every file of the template set the hash of the file on *)
(* disk, the contentHash recorded for it under the latest deployment (as  *)
(* getLatestRuleDeployment gives it) and the hash of the rendered content *)
(* are equal.                                                             *)
RecordedUnder(d, f) ==
    {rf.contentHash : rf \in {r \in getLatestRuleFiles(d) : r.filename = f}}

ConsistentUnder(d) ==
    \A f \in TemplateNameSet :
        /\ f \in DOMAIN disk
        /\ generateHash(disk[f]) = generateHash(Desired(f))
        /\ RecordedUnder(d, f) = {generateHash(Desired(f))}

C31_PostDeployConsistency ==
    Ended("deployed") => \A d \in getLatestRuleDeployment : ConsistentUnder(d)


(* C32 (no baseline means no drift): with no row in rule_deployments and  *)
(* files already in the directory, an invocation with forceUpdate=false   *)
(* never returns the drift warning.  It returns "already up to date",     *)
(* with still no Deployment row, when every file of the template set is   *)
(* on disk with its rendered content; otherwise it goes on to write and a *)
(* "deployed" result has overwritten the files with the rendered content. *)
NoBaseline ==
    /\ Busy
    /\ ~inv.forceUpdate
    /\ ReadsSucceeded
    /\ pre.deployments = <<>>
    /\ existingFilesOf(pre.disk) # {}

AllRendered ==
    \A f \in TemplateNameSet : f \in DOMAIN pre.disk /\ pre.disk[f] = Desired(f)

C32_NoBaselineNoDrift ==
    NoBaseline
        => /\ ~Ended("drift")
           /\ AllRendered => /\ Ended("uptodate")
                             /\ deployments = <<>>
                             /\ Artifacts(disk) = Artifacts(pre.disk)
           /\ ~AllRendered
                 => /\ pc = "done" => outcome.kind \in {"deployed", "error"}
                    /\ Ended("error")
                          => outcome.cause \in {"backupMkdir", "backupCopy",
                                                "storeRuleDeployment", "writeFile",
                                                "storeRuleFile", "missingAfterWrite",
                                                "storeFact"}
                    /\ Ended("deployed")
                          => \A f \in TemplateNameSet :
                                f \in DOMAIN disk /\ disk[f] = Desired(f)

C32_Witness ==
    /\ NoBaseline
    /\ Ended("deployed")
    /\ \E f \in TemplateNameSet :
          /\ f \in DOMAIN pre.disk
          /\ pre.disk[f] # Desired(f)
          /\ disk[f] = Desired(f)


(* C33 (write never deletes and touches only template files): when an     *)
(* invocation has returned "deployed", the files whose content it changed *)
(* or created are files of the template set, every other file that was   *)
(* in the directory is still there with the content it had, and so is     *)
(* every earlier backup directory.                                        *)
OtherFiles == DOMAIN pre.disk \ TemplateNameSet

ChangedFiles ==
    {f \in DOMAIN disk : f \notin DOMAIN pre.disk \/ disk[f] # pre.disk[f]}

C33_WriteTouchesOnlyTemplates ==
    Ended("deployed")
        => /\ ChangedFiles \subseteq TemplateNameSet
           /\ \A f \in OtherFiles : f \in DOMAIN disk /\ disk[f] = pre.disk[f]
           /\ \A p \in DOMAIN pre.backups :
                 p \in DOMAIN backups /\ backups[p] = pre.backups[p]


(* C34 (deployment facts mirror deployments): an invocation that returns  *)
(* "deployed" stores exactly one "project-setup" fact, one that returns   *)
(* "already up to date" or the drift warning stores none, and whenever no *)
(* invocation is running the number of "project-setup" facts equals the   *)
(* number of Deployment rows.                                             *)
C34_FactsMirrorDeployments ==
    /\ Ended("deployed") => facts = pre.facts + 1
    /\ (Ended("uptodate") \/ Ended("drift")) => facts = pre.facts
    /\ pc \in {"idle", "done"} => facts = Len(deployments)


(* ------------------- ContextDatabase: open and close ------------------ *)
(* In this specification inv holds the fields of the ContextDatabase      *)
(* object that are not rows: inv.db is this.db (null, the handle while    *)
(* sqlite3 opens the file and createTables runs, the open handle, the     *)
(* handle while close() waits for its callback, the handle of a failed    *)
(* open), inv.tables tells whether the file has its tables.  The rows are *)
(* the file: close() and initialize() leave them where they are.          *)
Handles == {"null", "opening", "open", "closing", "broken"}
NewDatabase == [db |-> "null", tables |-> FALSE]
DataOperations == {"storeFact", "deleteFact", "storeRuleDeployment",
                   "storeRuleFile", "getLatestRuleDeployment"}
NotInitialized == "Database not initialized"

LifecycleInit ==
    /\ disk = EmptyMap
    /\ backups = EmptyMap
    /\ deployments = <<>>
    /\ ruleFiles = <<>>
    /\ facts = 0
    /\ clock = 0
    /\ release = 1
    /\ elsewhere = [disk |-> EmptyMap, ids |-> {}]
    /\ other = NoOverlap
    /\ pc = "idle"
    /\ inv = NewDatabase
    /\ outcome = NoOutcome
    /\ pre = NoSnapshot
    /\ fresh = FALSE
    /\ unverified = FALSE
    /\ written = EmptyMap
    /\ calls = 0
    /\ events = 0

Result(op, kind, cause, was) ==
    [op |-> op, kind |-> kind, cause |-> cause, was |-> was]

(* Lines 60-66: this.db is assigned as soon as the sqlite3 Database is    *)
(* constructed; the file is opened and the tables are made later.         *)
InitializeStart ==
    /\ pc = "idle"
    /\ inv.db = "null"
    /\ inv' = [inv EXCEPT !.db = "opening"]
    /\ UNCHANGED <<disk, backups, db, world, pc, outcome, pre, fresh,
                   unverified, written, budget>>

(* Lines 66-72 and 76-124: the open callback; createTables and            *)
(* runMigrations resolve initialize(), an error rejects it and this.db    *)
(* keeps the handle.                                                      *)
InitializeDone(ok) ==
    /\ pc = "idle"
    /\ inv.db = "opening"
    /\ Inject(~ok)
    /\ inv' = IF ok THEN [db |-> "open", tables |-> TRUE]
              ELSE [inv EXCEPT !.db = "broken"]
    /\ deployments' = IF ok THEN runMigrations(deployments) ELSE deployments
    /\ UNCHANGED <<disk, backups, ruleFiles, facts, world, pc, outcome, pre,
                   fresh, unverified, written, calls>>

(* The INSERT, DELETE or SELECT of a data operation, run on the tables. *)
Statement(op, deploymentId, filename) ==
    /\ facts' = IF op = "storeFact" THEN facts + 1
                ELSE IF op = "deleteFact" /\ facts > 0 THEN facts - 1
                ELSE facts
    /\ deployments' = IF op = "storeRuleDeployment"
                      THEN storeRuleDeployment(TEMPLATE_VERSION, Len(TemplateNames),
                                               NoActor, NoPath)
                      ELSE deployments
    /\ ruleFiles' = IF op = "storeRuleFile"
                    THEN storeRuleFile(deploymentId, filename,
                                       generateHash(UserContent))
                    ELSE ruleFiles

(* A data operation: the guard "if (!this.db) throw" first, then the      *)
(* statement on the handle.  On a handle that is still opening the        *)
(* statement is queued and runs once the file is open: it fails with "no  *)
(* such table" when it runs before the tables are made and succeeds       *)
(* otherwise.  A closing or failed handle answers SQLITE_MISUSE.          *)
DataOperation(op, deploymentId, filename, ran) ==
    /\ pc = "idle"
    /\ calls < MaxCalls
    /\ calls' = calls + 1
    /\ pc' = "done"
    /\ pre' = Snapshot
    /\ IF inv.db = "null"
       THEN /\ ~ran
            /\ outcome' = Result(op, "error", NotInitialized, inv.db)
            /\ UNCHANGED <<db, events>>
       ELSE IF inv.db \in {"closing", "broken"}
       THEN /\ ~ran
            /\ outcome' = Result(op, "error", "SQLITE_MISUSE", inv.db)
            /\ UNCHANGED <<db, events>>
       ELSE IF inv.db = "opening"
       THEN /\ ran \/ ~inv.tables
            /\ UNCHANGED events
            /\ IF ran
               THEN /\ Statement(op, deploymentId, filename)
                    /\ outcome' = Result(op, "ok", "none", inv.db)
               ELSE /\ UNCHANGED db
                    /\ outcome' = Result(op, "error", "SQLITE_ERROR", inv.db)
       ELSE /\ Inject(~ran)
            /\ IF ran
               THEN /\ Statement(op, deploymentId, filename)
                    /\ outcome' = Result(op, "ok", "none", inv.db)
               ELSE /\ UNCHANGED db
                    /\ outcome' = Result(op, "error", "SQLITE_ERROR", inv.db)
    /\ UNCHANGED <<disk, backups, world, inv, fresh, unverified, written>>

(* Lines 520-524: close() returns at once when this.db is null, else it   *)
(* asks sqlite3 to close and waits for the callback.                      *)
Close ==
    /\ pc = "idle"
    /\ inv.db \in {"null", "open"}
    /\ pc' = "done"
    /\ pre' = Snapshot
    /\ inv' = IF inv.db = "null" THEN inv ELSE [inv EXCEPT !.db = "closing"]
    /\ outcome' = Result("close", IF inv.db = "null" THEN "ok" ELSE "pending",
                         "none", inv.db)
    /\ UNCHANGED <<disk, backups, db, world, fresh, unverified, written, budget>>

(* Lines 524-531: the close callback sets this.db to null; on an error    *)
(* close() rejects and the handle stays.                                  *)
CloseDone(ok) ==
    /\ pc = "idle"
    /\ inv.db = "closing"
    /\ Inject(~ok)
    /\ inv' = [inv EXCEPT !.db = IF ok THEN "null" ELSE "open"]
    /\ UNCHANGED <<disk, backups, db, world, pc, outcome, pre, fresh,
                   unverified, written, calls>>

Returned ==
    /\ pc = "done"
    /\ pc' = "idle"
    /\ outcome' = NoOutcome
    /\ pre' = NoSnapshot
    /\ UNCHANGED <<disk, backups, db, world, inv, fresh, unverified, written,
                   budget>>

LifecycleNext ==
    \/ InitializeStart
    \/ \E ok \in BOOLEAN : InitializeDone(ok)
    \/ \E op \in DataOperations, deploymentId \in DeploymentIds,
          filename \in TemplateNameSet, ran \in BOOLEAN :
            DataOperation(op, deploymentId, filename, ran)
    \/ Close
    \/ \E ok \in BOOLEAN : CloseDone(ok)
    \/ Returned

LifecycleSpec == LifecycleInit /\ [][LifecycleNext]_vars

(* C35 (database lifecycle): a data operation called before initialize()  *)
(* has completed or after close() has completed fails with "Database not  *)
(* initialized" and changes no row; close() on a database that is not     *)
(* open does nothing and succeeds; and the rows stored before a close()   *)
(* are there after the next initialize().                                 *)
StoredRows == <<deployments, ruleFiles, facts>>
RowsBefore == <<pre.deployments, pre.ruleFiles, pre.facts>>

C35_DatabaseLifecycle ==
    /\ (pc = "done" /\ outcome.op \in DataOperations
                    /\ outcome.was \in {"null", "opening"})
          => /\ outcome.kind = "error"
             /\ outcome.cause = NotInitialized
             /\ StoredRows = RowsBefore
    /\ (pc = "done" /\ outcome.op = "close" /\ outcome.was = "null")
          => /\ outcome.kind = "ok"
             /\ inv.db = "null"
             /\ StoredRows = RowsBefore
    /\ (pc = "done" /\ outcome.op = "close" /\ outcome.was = "open")
          => StoredRows = RowsBefore


(* ------------------------------ FileWatcher --------------------------- *)
(* In this specification inv holds the fields of the FileWatcher object:  *)
(* watcher (0 for null, else the number of the chokidar watcher),         *)
(* recentChanges, loaded (loadIgnorePatterns, started by the constructor  *)
(* and not awaited, has filled ignoreFilter), and the chokidar watchers   *)
(* themselves: live are those that deliver events, open those whose       *)
(* close() has not resolved.  pre.log is the history of all events        *)
(* delivered to addChange.  start() and stop() are called one after the   *)
(* other, each awaited, as DevAssistantServer.start and stop do.          *)
NoWatcher == 0
WatchedPaths == {"src/a.ts", "coverage/x"}
ChangeTypes == {"added", "changed", "removed"}

\* ignoreFilter.ignores(relativePath) once the patterns are loaded:
\* "coverage/**" is one of them and is not in chokidar's own ignored list
IgnorePatterns == {"coverage/x"}

\* significantExtensions.includes(ext)
SignificantPaths == {"src/a.ts"}

NewFileWatcher ==
    [watcher |-> NoWatcher, recentChanges |-> <<>>, loaded |-> FALSE,
     live |-> {}, open |-> {}]

WatcherInit ==
    /\ disk = EmptyMap
    /\ backups = EmptyMap
    /\ deployments = <<>>
    /\ ruleFiles = <<>>
    /\ facts = 0
    /\ clock = 0
    /\ release = 1
    /\ elsewhere = [disk |-> EmptyMap, ids |-> {}]
    /\ other = NoOverlap
    /\ pc = "idle"
    /\ inv = NewFileWatcher
    /\ outcome = NoOutcome
    /\ pre = [taken |-> TRUE, log |-> <<>>]
    /\ fresh = FALSE
    /\ unverified = FALSE
    /\ written = EmptyMap
    /\ calls = 0
    /\ events = 0

(* Lines 25-54: the patterns of .gitignore and the common patterns are    *)
(* added after the awaited readFile.                                      *)
loadIgnorePatterns ==
    /\ ~inv.loaded
    /\ inv' = [inv EXCEPT !.loaded = TRUE]
    /\ UNCHANGED <<disk, backups, db, world, pc, outcome, pre, fresh,
                   unverified, written, budget>>

(* Lines 56-59 *)
shouldIgnoreFile(filePath) == inv.loaded /\ filePath \in IgnorePatterns

(* Lines 85-90: unshift, then slice(0, maxRecentChanges) *)
unshift(changes, change) ==
    LET all == <<change>> \o changes
    IN  IF Len(all) > maxRecentChanges THEN SubSeq(all, 1, maxRecentChanges)
        ELSE all

(* Lines 62-93 and 95-170: an add, change or unlink event of a live       *)
(* watcher.  analyzeAndStoreChange stores a "new-files" fact for an added *)
(* file of a significant extension; a failing storeFact is caught.        *)
addChange(w, filePath, type, stored) ==
    /\ w \in inv.live
    /\ events < MaxChanges
    /\ events' = events + 1
    /\ clock' = clock + 1
    /\ LET change == [path |-> filePath, type |-> type, timestamp |-> clock]
       IN  /\ pre' = [pre EXCEPT !.log = Append(@, change)]
           /\ IF shouldIgnoreFile(filePath)
              THEN /\ ~stored
                   /\ UNCHANGED <<inv, facts>>
              ELSE /\ inv' = [inv EXCEPT
                                !.recentChanges = unshift(@, change)]
                   /\ stored => type = "added" /\ filePath \in SignificantPaths
                   /\ facts' = IF stored THEN facts + 1 ELSE facts
    /\ UNCHANGED <<disk, backups, deployments, ruleFiles, release, elsewhere,
                   other, pc, outcome, fresh, unverified, written, calls>>

(* chokidar.watch(...) with its three listeners: the new watcher *)
Watch(object, w) ==
    [object EXCEPT !.watcher = w, !.live = @ \cup {w}, !.open = @ \cup {w}]

(* watcher.close() is called: the listeners are removed at once *)
CloseCalled(object) == [object EXCEPT !.live = @ \ {object.watcher}]

(* the promise of watcher.close() resolves, then this.watcher = null *)
CloseResolved(object) ==
    [object EXCEPT !.open = @ \ {object.watcher}, !.watcher = NoWatcher]

(* Faulty variant: start() opens a new watcher and leaves the old one. *)
StartOnRunning_NoStop(object, w) == Watch(object, w)

(* Lines 172-175 on a running watcher: await this.stop() *)
StartOnRunning(object, w) == CloseCalled(object)

(* Lines 172-205: start() *)
Start ==
    /\ pc = "idle"
    /\ calls < MaxCalls
    /\ calls' = calls + 1
    /\ IF inv.watcher # NoWatcher
       THEN /\ inv' = StartOnRunning(inv, calls + 1)
            /\ pc' = IF inv'.watcher = inv.watcher THEN "starting" ELSE "idle"
       ELSE /\ inv' = Watch(inv, calls + 1)
            /\ pc' = "idle"
    /\ UNCHANGED <<disk, backups, db, world, outcome, pre, fresh, unverified,
                   written, events>>

(* Lines 175-205: stop() has resolved inside start(), the new watcher is  *)
(* opened.                                                                *)
StartResumed ==
    /\ pc = "starting"
    /\ inv' = Watch(CloseResolved(inv), calls)
    /\ pc' = "idle"
    /\ UNCHANGED <<disk, backups, db, world, outcome, pre, fresh, unverified,
                   written, budget>>

(* Lines 207-212: stop() *)
Stop ==
    /\ pc = "idle"
    /\ IF inv.watcher # NoWatcher
       THEN /\ inv' = CloseCalled(inv)
            /\ pc' = "stopping"
            /\ UNCHANGED outcome
       ELSE /\ UNCHANGED inv
            /\ pc' = "done"
            /\ outcome' = [op |-> "stop", was |-> inv, log |-> pre.log]
    /\ UNCHANGED <<disk, backups, db, world, pre, fresh, unverified, written,
                   budget>>

StopResumed ==
    /\ pc = "stopping"
    /\ inv' = CloseResolved(inv)
    /\ pc' = "done"
    /\ outcome' = [op |-> "stop", was |-> inv, log |-> pre.log]
    /\ UNCHANGED <<disk, backups, db, world, pre, fresh, unverified, written,
                   budget>>

Min(a, b) == IF a < b THEN a ELSE b

\* Array.prototype.slice(0, end) for end >= 0
slice(changes, end) == SubSeq(changes, 1, Min(end, Len(changes)))

(* Lines 214-216: slice(0, limit || this.maxRecentChanges); given tells   *)
(* whether the optional limit was passed.                                 *)
getRecentChanges(given, limit) ==
    slice(inv.recentChanges,
          IF given /\ limit # 0 THEN limit ELSE maxRecentChanges)

GetRecentChanges(given, limit) ==
    /\ pc = "idle"
    /\ given \/ limit = 0
    /\ pc' = "done"
    /\ outcome' = [op |-> "getRecentChanges", given |-> given, limit |-> limit,
                   changes |-> getRecentChanges(given, limit)]
    /\ UNCHANGED <<disk, backups, db, world, inv, pre, fresh, unverified,
                   written, budget>>

WatcherReturned ==
    /\ pc = "done"
    /\ pc' = "idle"
    /\ outcome' = NoOutcome
    /\ UNCHANGED <<disk, backups, db, world, inv, pre, fresh, unverified,
                   written, budget>>

WatcherNext ==
    \/ loadIgnorePatterns
    \/ \E w \in 1..MaxCalls, filePath \in WatchedPaths, type \in ChangeTypes,
          stored \in BOOLEAN :
            addChange(w, filePath, type, stored)
    \/ Start
    \/ StartResumed
    \/ Stop
    \/ StopResumed
    \/ \E given \in BOOLEAN, limit \in 0..(maxRecentChanges + 1) :
            GetRecentChanges(given, limit)
    \/ WatcherReturned

WatcherSpec == WatcherInit /\ [][WatcherNext]_vars


(* C36 (recent-changes log is bounded and newest-first): recentChanges    *)
(* never holds more than maxRecentChanges entries; it is the most recent  *)
(* events on paths that are not ignored, newest first; no ignored path is *)
(* in it; and getRecentChanges(limit) returns its first                   *)
(* min(limit, maxRecentChanges) entries.                                  *)
RECURSIVE Reverse(_)
Reverse(s) == IF s = <<>> THEN <<>> ELSE Append(Reverse(Tail(s)), Head(s))

NotIgnored(log) == SelectSeq(log, LAMBDA c : c.path \notin IgnorePatterns)

C36_Bounded == Len(inv.recentChanges) <= maxRecentChanges
C36_NewestFirst ==
    inv.recentChanges = slice(Reverse(NotIgnored(pre.log)), maxRecentChanges)
C36_NoIgnoredPath ==
    \A i \in 1..Len(inv.recentChanges) :
        inv.recentChanges[i].path \notin IgnorePatterns
C36_Limit ==
    (pc = "done" /\ outcome.op = "getRecentChanges" /\ outcome.given)
        => outcome.changes
             = slice(inv.recentChanges, Min(outcome.limit, maxRecentChanges))

C36_RecentChangesBoundedNewestFirst ==
    /\ C36_Bounded
    /\ C36_NewestFirst
    /\ C36_NoIgnoredPath
    /\ C36_Limit


(* C37 (single active watcher): with start() and stop() called one after  *)
(* the other, at most one chokidar watcher is open at any time; start()   *)
(* on a running watcher has closed the previous one before it opens the   *)
(* new one; stop() on a stopped watcher changes nothing; and once stop()  *)
(* has returned no watcher is left that could append an event.            *)
C37_SingleActiveWatcher ==
    /\ Cardinality(inv.open) <= 1
    /\ inv.live \subseteq inv.open
    /\ inv.watcher # NoWatcher => inv.open = {inv.watcher}
    /\ inv.watcher = NoWatcher => inv.open = {}
    /\ pc = "starting" => inv.live = {}
    /\ (pc = "done" /\ outcome.op = "stop")
          => /\ inv.watcher = NoWatcher
             /\ inv.live = {}
             /\ outcome.log = pre.log
             /\ outcome.was.watcher = NoWatcher
                   => /\ inv.open = outcome.was.open
                      /\ inv.recentChanges = outcome.was.recentChanges

C37_Witness ==
    /\ pc = "done"
    /\ outcome.op = "stop"
    /\ outcome.was.watcher = 2
    /\ \E i \in 1..Len(inv.recentChanges) : inv.recentChanges[i].timestamp > 0
    /\ calls = 2

====
